---- MODULE Spec2Model ----
(***************************************************************************)
(* The anxiety-attack dashboard of layout.py as a state machine.           *)
(*                                                                         *)
(* layout.py is a Streamlit script: every user event (upload, removal of   *)
(* the upload, page switch, widget change) re-runs the whole script from   *)
(* line 1.  One action of this module is one event together with the       *)
(* script run it triggers.  The state kept between runs is the widget      *)
(* state (uploaded_file, page, search_text, the form); df and everything   *)
(* the run put on the screen are recomputed by each run.                   *)
(*                                                                         *)
(* Text is a sequence of symbols.  A cell and a search string are          *)
(* sequences of one-character strings; a header is a sequence of blanks    *)
(* and of text fragments (the column names of layout.py are one fragment   *)
(* each).  Uploaded files are files pandas can parse, whose trimmed        *)
(* headers are pairwise distinct and whose text columns hold text.         *)
(***************************************************************************)
EXTENDS Integers, Sequences, FiniteSets, TLC

VARIABLES uploaded_file, page, search_text, form, df, out

vars == <<uploaded_file, page, search_text, form, df, out>>

(***************************************************************************)
(* Bounds of the model.                                                    *)
(***************************************************************************)
\* rows of a generated upload (Loader specification)
MaxRows == 2
\* blanks put before and after a header (Loader specification)
MaxPad == 1
\* rows of a generated dataset (Reports specification)
MaxReportRows == 2
\* length of the generated search strings (Reports specification)
MaxSearchLen == 2

(***************************************************************************)
(* Values.                                                                 *)
(***************************************************************************)
\* Python's None
None == [none |-> TRUE]
\* a missing cell (NaN)
NaN == [t |-> "nan"]
Str(s) == [t |-> "str", s |-> s]
Num(n) == [t |-> "num", n |-> n]

IsNa(v) == v = NaN

Range(s) == {s[i] : i \in 1..Len(s)}

Digits == <<"0", "1", "2", "3", "4", "5", "6", "7", "8", "9">>

IsDigit(c) == \E i \in 1..10 : Digits[i] = c

DigitValue(c) == (CHOOSE i \in 1..10 : Digits[i] = c) - 1

Whitespace == {" ", "\t"}

(***************************************************************************)
(* str.strip(): the text without its leading and trailing blanks.          *)
(***************************************************************************)
RECURSIVE LStrip(_)
LStrip(s) ==
    IF s # <<>> /\ Head(s) \in Whitespace THEN LStrip(Tail(s)) ELSE s

RECURSIVE RStrip(_)
RStrip(s) ==
    IF s # <<>> /\ s[Len(s)] \in Whitespace
    THEN RStrip(SubSeq(s, 1, Len(s) - 1))
    ELSE s

Strip(s) == RStrip(LStrip(s))

(***************************************************************************)
(* The schema: required_columns, and required_columns[2:].                 *)
(***************************************************************************)
required_columns ==
    << <<"Gender">>, <<"Occupation">>, <<"Stress Level (1-10)">>,
       <<"Heart Rate (bpm during attack)">>, <<"Breathing Rate (breaths/min)">>,
       <<"Caffeine Intake (mg/day)">>, <<"Alcohol Consumption (drinks/week)">>,
       <<"Severity of Anxiety Attack (1-10)">>, <<"Sleep Hours">> >>

numeric_columns == SubSeq(required_columns, 3, Len(required_columns))

(***************************************************************************)
(* A DataFrame: its column labels, each column's dtype, its rows.          *)
(***************************************************************************)
ColIndex(d, col) == CHOOSE i \in 1..Len(d.columns) : d.columns[i] = col

HasColumn(d, col) == \E i \in 1..Len(d.columns) : d.columns[i] = col

Cell(d, r, col) == d.rows[r][ColIndex(d, col)]

Column(d, col) == [r \in 1..Len(d.rows) |-> Cell(d, r, col)]

\* pandas' default NA markers among the cells of the model
NaValues == {<<>>, <<"N", "A">>}

\* pd.read_csv: the header as written, an NA marker read as NaN
read_csv(file) ==
    [columns |-> file.header,
     dtypes  |-> [i \in 1..Len(file.header) |-> "object"],
     rows    |-> [r \in 1..Len(file.rows) |->
                    [i \in 1..Len(file.header) |->
                            IF file.rows[r][i] \in NaValues THEN NaN
                            ELSE Str(file.rows[r][i])]]]

\* df.columns = df.columns.str.strip()
StripColumns(d) ==
    [d EXCEPT !.columns = [i \in 1..Len(d.columns) |-> Strip(d.columns[i])]]

\* a check that names every required column as soon as one is missing
MissingColsAny(d) ==
    IF \E i \in 1..Len(required_columns) : ~HasColumn(d, required_columns[i])
    THEN required_columns ELSE <<>>

\* [col for col in required_columns if col not in df.columns]
missing_cols(d) ==
    SelectSeq(required_columns, LAMBDA col : ~HasColumn(d, col))

(***************************************************************************)
(* pd.to_numeric(..., errors="coerce") on one cell: a decimal numeral      *)
(* (digits, optionally followed by ".0") becomes its number, anything else *)
(* NaN.                                                                    *)
(***************************************************************************)
RECURSIVE DigitsValue(_)
DigitsValue(s) ==
    IF s = <<>> THEN 0
    ELSE 10 * DigitsValue(SubSeq(s, 1, Len(s) - 1)) + DigitValue(s[Len(s)])

AllDigits(s) == s # <<>> /\ \A i \in 1..Len(s) : IsDigit(s[i])

IntegerPart(s) ==
    IF Len(s) > 2 /\ SubSeq(s, Len(s) - 1, Len(s)) = <<".", "0">>
    THEN SubSeq(s, 1, Len(s) - 2)
    ELSE s

to_numeric(v) ==
    IF v.t = "num" THEN v
    ELSE IF v.t = "str" /\ AllDigits(IntegerPart(v.s))
    THEN Num(DigitsValue(IntegerPart(v.s)))
    ELSE NaN

\* for col in required_columns[2:]: df[col] = pd.to_numeric(df[col], errors="coerce")
ConvertColumns(d, cols) ==
    LET isNum(i) == \E k \in 1..Len(cols) : cols[k] = d.columns[i]
        conv(r, i) == to_numeric(d.rows[r][i])
    IN [d EXCEPT
          !.rows = [r \in 1..Len(d.rows) |->
                      [i \in 1..Len(d.columns) |->
                              IF isNum(i) THEN conv(r, i) ELSE d.rows[r][i]]],
          !.dtypes = [i \in 1..Len(d.columns) |->
                      IF ~isNum(i) THEN d.dtypes[i]
                      ELSE IF \E r \in 1..Len(d.rows) : IsNa(conv(r, i))
                      THEN "float64" ELSE "int64"]]

\* dropna without its subset: a missing value in any column drops the row
dropna_all(d, subset) ==
    [d EXCEPT !.rows = SelectSeq(d.rows,
        LAMBDA row : \A i \in 1..Len(row) : ~IsNa(row[i]))]

\* df.dropna(subset=required_columns, inplace=True)
dropna(d, subset) ==
    [d EXCEPT !.rows = SelectSeq(d.rows,
        LAMBDA row : \A k \in 1..Len(subset) :
                        ~IsNa(row[ColIndex(d, subset[k])]))]

(***************************************************************************)
(* Lines 18-40: df and the sidebar error of one script run.                *)
(***************************************************************************)
\* no st.sidebar.error: the empty list of missing columns
NoError == <<>>

\* df = None, at the start of every run
InitialDf == None

\* a rejection that leaves an empty frame in df instead of None
RejectedAsEmpty(d) ==
    [columns |-> required_columns,
     dtypes  |-> [i \in 1..Len(required_columns) |-> "object"],
     rows    |-> <<>>]

\* after st.sidebar.error: df = None
RejectedDf(d) == None

\* lines 31-40, on the frame with its columns stripped
CheckColumns(d, missing) ==
    IF missing # <<>>
    THEN [df |-> RejectedDf(d), error |-> missing]
    ELSE [df |-> dropna(ConvertColumns(d, numeric_columns), required_columns),
          error |-> NoError]

LoadFrame(d) == CheckColumns(d, missing_cols(d))

LoadData(file) ==
    IF file = None THEN [df |-> InitialDf, error |-> NoError]
    ELSE LoadFrame(StripColumns(read_csv(file)))

(***************************************************************************)
(* round(x, 2) of the ratio num/den, in hundredths: the integer nearest to *)
(* 100*num/den, a tie going to the even one.                               *)
(***************************************************************************)
RoundRatio(num, den) ==
    LET q == num \div den
        r == num % den
    IN IF 2 * r < den THEN q
       ELSE IF 2 * r > den THEN q + 1
       ELSE IF q % 2 = 0 THEN q ELSE q + 1

\* a number shown with two decimals, held in hundredths
Dec2(h) == [t |-> "dec2", h |-> h]

\* an exception raised by a call
Raised(name) == [raise |-> name]

IsRaised(v) == "raise" \in DOMAIN v

RECURSIVE SumNums(_)
SumNums(s) == IF s = <<>> THEN 0 ELSE Head(s).n + SumNums(Tail(s))

\* a mean that divides by the number of rows, none included
MeanRaisesOnEmpty(col) ==
    IF Len(col) = 0 THEN Raised("ZeroDivisionError")
    ELSE Dec2(RoundRatio(100 * SumNums(col), Len(col)))

\* round(df[col].mean(), 2): the mean of no value is NaN
RoundedMean(col) ==
    IF Len(col) = 0 THEN NaN
    ELSE Dec2(RoundRatio(100 * SumNums(col), Len(col)))

(***************************************************************************)
(* What one script run puts on the screen.                                 *)
(***************************************************************************)
Blank ==
    [views      |-> <<>>,
     title     |-> "",
     warnings  |-> <<>>,
     metrics   |-> <<>>,
     charts    |-> <<>>,
     score     |-> None,
     filtered  |-> None,
     csv       |-> None,
     exceptions |-> <<>>]

Pages == <<"Home", "Data Visualization", "Predictions", "Reports">>

\* if df is not None
HasDataset(d) == d # None

(***************************************************************************)
(* Home, lines 43-65.                                                      *)
(***************************************************************************)
MetricColumns == SubSeq(required_columns, 3, 7)

\* the metrics in the order of their calls, up to the first that raises
ShowMetrics(base, vals, bad) ==
    IF bad = {} THEN [base EXCEPT !.metrics = vals]
    ELSE [base EXCEPT
            !.metrics = SubSeq(vals, 1, (CHOOSE i \in bad : \A j \in bad : i <= j) - 1),
            !.exceptions = <<vals[CHOOSE i \in bad : \A j \in bad : i <= j].raise>>]

Averages(d) ==
    [i \in 1..Len(MetricColumns) |-> RoundedMean(Column(d, MetricColumns[i]))]

HomeMetrics(base, vals) ==
    ShowMetrics(base, vals, {i \in 1..Len(vals) : IsRaised(vals[i])})

HomeView(d) ==
    IF HasDataset(d)
    THEN HomeMetrics([Blank EXCEPT !.views = <<"Home">>,
                                   !.title = "Anxiety Attack Data Analysis"],
                     Averages(d))
    ELSE [Blank EXCEPT
            !.views = <<"Home">>,
            !.title = "Anxiety Attack Data Analysis",
            !.warnings = <<"Please upload a valid dataset to see insights.">>]

(***************************************************************************)
(* Data Visualization, lines 67-93: the four charts, by name.              *)
(***************************************************************************)
\* the charts drawn without the check of df
ChartViewUnguarded(d) ==
    [Blank EXCEPT !.views = <<"Data Visualization">>,
                  !.title = "Data Visualization",
                  !.charts = <<"barplot", "scatterplot", "histplot", "heatmap">>]

ChartView(d) ==
    LET base == [Blank EXCEPT !.views = <<"Data Visualization">>,
                              !.title = "Data Visualization"]
    IN IF HasDataset(d)
       THEN [base EXCEPT
               !.charts = <<"barplot", "scatterplot", "histplot", "heatmap">>]
       ELSE [base EXCEPT
               !.warnings = <<"Please upload a valid dataset to view visualizations.">>]

(***************************************************************************)
(* Predictions, lines 95-115.                                              *)
(***************************************************************************)
StressMin == 1
StressMax == 10
StressDefault == 5
HeartRateMin == 50
HeartRateMax == 200
HeartRateDefault == 80
BreathingRateMin == 10
BreathingRateMax == 40
BreathingRateDefault == 20
CaffeineMin == 0
CaffeineMax == 500
CaffeineDefault == 100
AlcoholMin == 0
AlcoholMax == 10
AlcoholDefault == 2
SleepMin == 0
SleepMax == 12
SleepDefault == 7

DefaultForm ==
    [gender         |-> None,
     occupation     |-> None,
     stress_level   |-> StressDefault,
     heart_rate     |-> HeartRateDefault,
     breathing_rate |-> BreathingRateDefault,
     caffeine       |-> CaffeineDefault,
     alcohol        |-> AlcoholDefault,
     sleep_hours    |-> SleepDefault]

\* df[col].unique(): the values in the order of their first row
RECURSIVE Unique(_)
Unique(s) ==
    IF s = <<>> THEN <<>>
    ELSE LET u == Unique(SubSeq(s, 1, Len(s) - 1))
         IN IF s[Len(s)] \in Range(u) THEN u ELSE Append(u, s[Len(s)])

\* st.selectbox: the chosen option, the first one when the choice is not offered
Selected(choice, options) ==
    IF choice \in Range(options) THEN choice
    ELSE IF options = <<>> THEN None ELSE options[1]

ShownForm(d, f) ==
    [f EXCEPT !.gender = Selected(f.gender, Unique(Column(d, required_columns[1]))),
              !.occupation = Selected(f.occupation, Unique(Column(d, required_columns[2])))]

(***************************************************************************)
(* round(np.mean([stress_level, heart_rate / 20, breathing_rate / 5,       *)
(* caffeine / 100, alcohol]), 2), in hundredths.  The five terms are kept  *)
(* in hundredths (x/20 = 5x/100, x/5 = 20x/100); their mean is never half  *)
(* way between two hundredths, so exact and floating-point rounding agree. *)
(***************************************************************************)
\* the mean with sleep hours as a sixth term
SeverityWithSleep(f) ==
    Dec2(RoundRatio(100 * f.stress_level + 5 * f.heart_rate
                    + 20 * f.breathing_rate + f.caffeine + 100 * f.alcohol
                    + 100 * f.sleep_hours, 6))

\* the mean of the five inputs as entered
SeverityUnscaled(f) ==
    Dec2(RoundRatio(100 * f.stress_level + 100 * f.heart_rate
                    + 100 * f.breathing_rate + 100 * f.caffeine
                    + 100 * f.alcohol, 5))

\* round(predicted_severity, 2)
predicted_severity(f) ==
    Dec2(RoundRatio(100 * f.stress_level + 5 * f.heart_rate
                    + 20 * f.breathing_rate + f.caffeine + 100 * f.alcohol, 5))

PredictionsView(d, f) ==
    LET base == [Blank EXCEPT !.views = <<"Predictions">>,
                              !.title = "Anxiety Severity Prediction"]
    IN IF HasDataset(d)
       THEN [base EXCEPT !.score = predicted_severity(ShownForm(d, f))]
       ELSE [base EXCEPT
               !.warnings = <<"Please upload a valid dataset to use prediction.">>]

(***************************************************************************)
(* Reports, lines 117-132.                                                 *)
(*                                                                         *)
(* Series.str.contains(pat, case=False, na=False) searches each value for  *)
(* the regular expression pat, letter case ignored (regex=True is the      *)
(* default).  Of the regular-expression syntax the model has "." (any      *)
(* character) and "(", which is never closed here and makes re.compile     *)
(* raise re.error; every other character stands for itself.                *)
(***************************************************************************)
Upper == <<"A", "E", "F", "G", "H", "L", "M", "N", "O", "S", "T">>
LowerOf == <<"a", "e", "f", "g", "h", "l", "m", "n", "o", "s", "t">>

\* str.lower() on one character
Lower(c) ==
    IF \E i \in 1..Len(Upper) : Upper[i] = c
    THEN LowerOf[CHOOSE i \in 1..Len(Upper) : Upper[i] = c]
    ELSE c

ValidPattern(pat) == \A k \in 1..Len(pat) : pat[k] # "("

\* the match without case=False
MatchesCaseSensitiveAt(pat, s, i) ==
    \A k \in 1..Len(pat) : pat[k] = "." \/ pat[k] = s[i + k - 1]

\* pat matches s from position i on
MatchesAt(pat, s, i) ==
    \A k \in 1..Len(pat) : pat[k] = "." \/ Lower(pat[k]) = Lower(s[i + k - 1])

\* re.search(pat, s, re.IGNORECASE) is not None
Search(pat, s) ==
    \E i \in 1..(Len(s) - Len(pat) + 1) : MatchesAt(pat, s, i)

\* one value of the boolean Series; na=False for a missing value
Contains(v, pat) == IF v.t = "str" THEN Search(pat, v.s) ELSE FALSE

\* df[df["Gender"].str.contains(...) | df["Occupation"].str.contains(...)]
filtered_df(d, search) ==
    [d EXCEPT !.rows = SelectSeq(d.rows,
        LAMBDA row : \/ Contains(row[ColIndex(d, required_columns[1])], search)
                     \/ Contains(row[ColIndex(d, required_columns[2])], search))]

(***************************************************************************)
(* df.to_csv(index=False): the header line, then one line per row, the     *)
(* fields joined by ",".  An int64 cell is written as its digits, a        *)
(* float64 cell with ".0" after them.                                      *)
(***************************************************************************)
RECURSIVE DigitsOf(_)
DigitsOf(n) ==
    IF n < 10 THEN <<Digits[n + 1]>>
    ELSE Append(DigitsOf(n \div 10), Digits[(n % 10) + 1])

FormatCell(v, dtype) ==
    IF v.t = "str" THEN v.s
    ELSE IF v.t = "nan" THEN <<>>
    ELSE IF dtype = "float64" THEN DigitsOf(v.n) \o <<".", "0">>
    ELSE DigitsOf(v.n)

RECURSIVE Join(_)
Join(fields) ==
    IF fields = <<>> THEN <<>>
    ELSE IF Len(fields) = 1 THEN fields[1]
    ELSE fields[1] \o <<",">> \o Join(Tail(fields))

to_csv(d) ==
    [lines |-> <<Join(d.columns)>> \o
        [r \in 1..Len(d.rows) |->
            Join([i \in 1..Len(d.columns) |->
                         FormatCell(d.rows[r][i], d.dtypes[i])])]]

ReportsView(d, search) ==
    LET base == [Blank EXCEPT !.views = <<"Reports">>,
                              !.title = "Reports & Insights"]
    IN IF HasDataset(d)
       THEN IF ValidPattern(search)
            THEN [base EXCEPT !.filtered = filtered_df(d, search),
                              !.csv = to_csv(d)]
            ELSE [base EXCEPT !.exceptions = <<"re.error">>]
       ELSE [base EXCEPT
               !.warnings = <<"Please upload a dataset to generate reports.">>]

(***************************************************************************)
(* Lines 43-132: the if/elif chain on page.                                *)
(***************************************************************************)
MainPage(pg, d, search, f) ==
    IF pg = "Home" THEN HomeView(d)
    ELSE IF pg = "Data Visualization" THEN ChartView(d)
    ELSE IF pg = "Predictions" THEN PredictionsView(d, f)
    ELSE IF pg = "Reports" THEN ReportsView(d, search)
    ELSE Blank

(***************************************************************************)
(* One run of the script.  A widget the run does not show loses its state  *)
(* and has its default value when it is shown again.                       *)
(***************************************************************************)
NoSearch == <<>>

\* a widget the run shows keeps its value, another one has its default
KeptSearch(d, pg, search) ==
    IF HasDataset(d) /\ pg = "Reports" THEN search ELSE NoSearch

KeptForm(d, pg, f) ==
    IF HasDataset(d) /\ pg = "Predictions" THEN ShownForm(d, f) ELSE DefaultForm

Script(file, pg, search, f, loaded) ==
    [df          |-> loaded.df,
     out         |-> [error |-> loaded.error] @@
                     MainPage(pg, loaded.df, search, f),
     search_text |-> KeptSearch(loaded.df, pg, search),
     form        |-> KeptForm(loaded.df, pg, f)]

Rerun(file, pg, search, f) ==
    \E run \in {Script(file, pg, search, f, LoadData(file))} :
       /\ uploaded_file' = file
       /\ page' = pg
       /\ df' = run.df
       /\ out' = run.out
       /\ search_text' = run.search_text
       /\ form' = run.form

(***************************************************************************)
(* The first run: nothing uploaded, the radio on its first option.         *)
(***************************************************************************)
Init ==
    \E run \in {Script(None, Pages[1], NoSearch, DefaultForm, LoadData(None))} :
       /\ uploaded_file = None
       /\ page = Pages[1]
       /\ df = run.df
       /\ out = run.out
       /\ search_text = run.search_text
       /\ form = run.form

(***************************************************************************)
(* The events.                                                             *)
(***************************************************************************)
UploadFile(file) ==
    /\ file # uploaded_file
    /\ Rerun(file, page, search_text, form)

RemoveFile ==
    /\ uploaded_file # None
    /\ Rerun(None, page, search_text, form)

SwitchPage(pg) ==
    /\ pg # page
    /\ Rerun(uploaded_file, pg, search_text, form)

\* the search box is on the screen: Reports, with a dataset
ChangeSearch(search) ==
    /\ page = "Reports"
    /\ HasDataset(df)
    /\ search # search_text
    /\ Rerun(uploaded_file, page, search, form)

\* the form is on the screen: Predictions, with a dataset
ChangeForm(f) ==
    /\ page = "Predictions"
    /\ HasDataset(df)
    /\ f # form
    /\ Rerun(uploaded_file, page, search_text, f)

(***************************************************************************)
(* Uploads.  A file is its header and its rows of cells, as written.       *)
(***************************************************************************)
Male == <<"M", "a", "l", "e">>
Female == <<"F", "e", "m", "a", "l", "e">>
Eng == <<"E", "n", "g">>
Sales == <<"S", "a", "l", "e", "s">>

\* names that differ from the required ones in letter case only
DecoyColumns ==
    << <<"gender">>, <<"occupation">>, <<"stress level (1-10)">>,
       <<"heart rate (bpm during attack)">>, <<"breathing rate (breaths/min)">>,
       <<"caffeine intake (mg/day)">>, <<"alcohol consumption (drinks/week)">>,
       <<"severity of anxiety attack (1-10)">>, <<"sleep hours">> >>

ExtraColumn == <<"ID">>

Pad(label, lead, trail) ==
    [i \in 1..lead |-> " "] \o label \o [i \in 1..trail |-> "\t"]

\* a complete row: the nine required cells, then the cell of the extra column
GoodRow(g, o) ==
    << g, o, IF g = Male THEN <<"5">> ELSE <<"9">>, <<"8", "0">>, <<"2", "0">>,
       <<"1", "0", "0">>, <<"2">>, <<"6">>, <<"7">>, <<"a">> >>

FullHeader(lead, trail) ==
    [i \in 1..Len(required_columns) |-> Pad(required_columns[i], lead, trail)]
    \o <<ExtraColumn>>

\* the files of the Loader specification whose header lacks columns
HeaderFile(S, lead, trail, decoy) ==
    LET idx == SelectSeq([i \in 1..Len(required_columns) |-> i],
                         LAMBDA i : i \in S \/ decoy)
        good == GoodRow(Male, Eng)
    IN [header |-> [k \in 1..Len(idx) |->
                       Pad(IF idx[k] \in S THEN required_columns[idx[k]]
                           ELSE DecoyColumns[idx[k]], lead, trail)]
                   \o <<ExtraColumn>>,
        rows   |-> << [k \in 1..Len(idx) |-> good[idx[k]]] \o <<good[10]>> >>]

HeaderFiles ==
    {HeaderFile(S, lead, trail, decoy) :
        S \in SUBSET (1..Len(required_columns)),
        lead \in 0..MaxPad, trail \in {0, MaxPad}, decoy \in BOOLEAN}

\* a row with one cell replaced
Defect(row, k, cell) == [row EXCEPT ![k] = cell]

RowVariants ==
    {GoodRow(Male, Eng), GoodRow(Female, Sales),
     Defect(GoodRow(Female, Eng), 9, <<"7", ".", "0">>),
     Defect(GoodRow(Male, Sales), 1, <<>>),
     Defect(GoodRow(Male, Sales), 2, <<"N", "A">>),
     Defect(GoodRow(Male, Sales), 10, <<>>)}
    \cup {Defect(GoodRow(Male, Sales), k, <<"x">>) : k \in {3, 4, 6, 9}}
    \cup {Defect(GoodRow(Male, Sales), k, <<>>) : k \in {4, 8}}
    \cup {Defect(GoodRow(Male, Sales), k, <<"8", "x">>) : k \in {5, 7}}

Tables(rows, n) == UNION {[1..k -> rows] : k \in 0..n}

TableFiles ==
    {[header |-> FullHeader(pad, pad), rows |-> t] :
        pad \in {0, MaxPad}, t \in Tables(RowVariants, MaxRows)}

LoaderFiles == HeaderFiles \cup TableFiles

(***************************************************************************)
(* The Loader specification: each generated file is uploaded to a session  *)
(* with no upload, on the Home page.                                       *)
(***************************************************************************)
UploadGenerated ==
    /\ uploaded_file = None
    /\ \E file \in LoaderFiles : UploadFile(file)

NextLoader == UploadGenerated \/ RemoveFile

SpecLoader == Init /\ [][NextLoader]_vars

(***************************************************************************)
(* What the claims say of a file, stated on the file as written.           *)
(***************************************************************************)
\* t is h without its leading and trailing blanks
IsTrimOf(t, h) ==
    \E i \in 0..(Len(h) - Len(t)) :
        /\ t = SubSeq(h, i + 1, i + Len(t))
        /\ \A k \in 1..i : h[k] \in Whitespace
        /\ \A k \in (i + Len(t) + 1)..Len(h) : h[k] \in Whitespace
        /\ t # <<>> => (t[1] \notin Whitespace /\ t[Len(t)] \notin Whitespace)

PresentIn(file, col) == \E i \in 1..Len(file.header) : IsTrimOf(col, file.header[i])

MissingFrom(file) == {col \in Range(required_columns) : ~PresentIn(file, col)}

\* where each required column stands in the file
PositionsOf(file) ==
    [k \in 1..Len(required_columns) |->
        CHOOSE i \in 1..Len(file.header) : IsTrimOf(required_columns[k], file.header[i])]

\* the numerals among the cells of the uploads, with their numbers
CellNumbers ==
    { <<<<"5">>, 5>>, <<<<"9">>, 9>>, <<<<"8", "0">>, 80>>, <<<<"2", "0">>, 20>>,
      <<<<"1", "0", "0">>, 100>>, <<<<"2">>, 2>>, <<<<"6">>, 6>>, <<<<"7">>, 7>>,
      <<<<"7", ".", "0">>, 7>>, <<<<"4">>, 4>> }

ExpectedNumber(cell) ==
    IF \E p \in CellNumbers : p[1] = cell
    THEN Num((CHOOSE p \in CellNumbers : p[1] = cell)[2])
    ELSE NaN

ExpectedText(cell) ==
    IF cell = <<>> \/ cell = <<"N", "A">> THEN NaN ELSE Str(cell)

\* the rows of the file whose required cells are all present after coercion,
\* in order, the numeric cells coerced
ExpectedRows(file) ==
    LET pos == PositionsOf(file)
        numeric == {pos[k] : k \in 3..Len(required_columns)}
        expected(row) == [i \in 1..Len(file.header) |->
                            IF i \in numeric THEN ExpectedNumber(row[i])
                            ELSE ExpectedText(row[i])]
        all == [r \in 1..Len(file.rows) |-> expected(file.rows[r])]
    IN SelectSeq(all, LAMBDA row : \A k \in 1..Len(pos) : row[pos[k]] # NaN)

\* C1: an upload whose trimmed headers lack required columns is rejected with
\* an error naming exactly the missing required columns, once each, and the
\* Dataset is absent.
C1_MissingColumnsRejected ==
    (uploaded_file # None /\ MissingFrom(uploaded_file) # {}) =>
        /\ df = None
        /\ Range(out.error) = MissingFrom(uploaded_file)
        /\ Len(out.error) = Cardinality(MissingFrom(uploaded_file))

\* a padded header with a column missing and a column present only in lower case
C1_Witness ==
    /\ uploaded_file # None
    /\ Cardinality(MissingFrom(uploaded_file)) = 2
    /\ \E i \in 1..Len(uploaded_file.header) :
          /\ uploaded_file.header[i] \notin Range(required_columns)
          /\ PresentIn(uploaded_file, Strip(uploaded_file.header[i]))
          /\ Strip(uploaded_file.header[i]) \in Range(required_columns)
    /\ DecoyColumns[1] \in {Strip(uploaded_file.header[i]) :
                               i \in 1..Len(uploaded_file.header)}
    /\ df = None
    /\ Len(out.error) = 2

\* C2: for an upload with all 9 required columns the Dataset is the
\* sub-sequence, in order, of the rows whose 9 required cells are all present
\* after coercion, each with its numeric cells coerced and its other cells as
\* written; a missing cell outside the required columns drops no row.
C2_DatasetIsCompleteRows ==
    (uploaded_file # None /\ MissingFrom(uploaded_file) = {}) =>
        /\ df # None
        /\ df.rows = ExpectedRows(uploaded_file)
        /\ out.error = <<>>

\* a row dropped for a cell that fails coercion, a row kept although its cell
\* outside the required columns is missing
C2_Witness ==
    /\ uploaded_file # None
    /\ MissingFrom(uploaded_file) = {}
    /\ Len(uploaded_file.rows) = 2
    /\ uploaded_file.rows[1][4] = <<"x">>
    /\ uploaded_file.rows[2][10] = <<>>
    /\ df # None
    /\ Len(df.rows) = 1
    /\ df.rows[1][10] = NaN

\* C10: an upload with all 9 required columns whose rows are all dropped gives
\* a present Dataset of zero rows and no schema error, and the Home view ends
\* without an exception, its five averages shown as NaN.
C10_EmptyDatasetMetrics ==
    (/\ uploaded_file # None
     /\ MissingFrom(uploaded_file) = {}
     /\ ExpectedRows(uploaded_file) = <<>>
     /\ page = "Home") =>
        /\ df # None
        /\ df.rows = <<>>
        /\ out.error = <<>>
        /\ out.exceptions = <<>>
        /\ out.warnings = <<>>
        /\ out.metrics = [i \in 1..5 |-> NaN]

C10_Witness ==
    /\ uploaded_file # None
    /\ MissingFrom(uploaded_file) = {}
    /\ Len(uploaded_file.rows) = 2
    /\ df # None
    /\ df.rows = <<>>
    /\ page = "Home"
    /\ Len(out.metrics) = 5

(***************************************************************************)
(* The session specification: every event, over a few uploads.             *)
(***************************************************************************)
SessionFiles ==
    { [header |-> FullHeader(1, 1),
       rows   |-> <<GoodRow(Male, Eng), GoodRow(Female, Sales)>>],
      [header |-> FullHeader(0, 0),
       rows   |-> <<GoodRow(Female, Eng), Defect(GoodRow(Male, Sales), 4, <<"x">>),
                    Defect(GoodRow(Male, Sales), 10, <<>>)>>],
      [header |-> FullHeader(0, 1),
       rows   |-> <<Defect(GoodRow(Male, Eng), 3, <<>>)>>],
      HeaderFile(2..Len(required_columns), 1, 0, TRUE),
      HeaderFile(1..(Len(required_columns) - 1), 0, 1, FALSE) }

SessionSearches == {NoSearch, <<"m", "a", "l", "e">>, <<"s">>, <<".">>, <<"(">>}

StressSamples == {StressMin, StressDefault, StressMax}
HeartRateSamples == {HeartRateMin, HeartRateDefault, HeartRateMax}
BreathingRateSamples == {BreathingRateMin, BreathingRateDefault, BreathingRateMax}
CaffeineSamples ==
    {CaffeineMin, CaffeineMin + 1, CaffeineMin + 3, CaffeineDefault, CaffeineMax}
AlcoholSamples == {AlcoholMin, AlcoholDefault, AlcoholMax}
SleepSamples == {SleepMin, SleepDefault, SleepMax}

\* the forms one widget away from f
\* the options of a select box: none while the form is not on the screen
Options(d, col) == IF HasDataset(d) THEN Range(Unique(Column(d, col))) ELSE {}
GenderChanges(f, d) ==
    {[f EXCEPT !.gender = g] : g \in Options(d, required_columns[1])}
OccupationChanges(f, d) ==
    {[f EXCEPT !.occupation = o] : o \in Options(d, required_columns[2])}
StressChanges(f) == {[f EXCEPT !.stress_level = v] : v \in StressSamples}
HeartRateChanges(f) == {[f EXCEPT !.heart_rate = v] : v \in HeartRateSamples}
BreathingRateChanges(f) == {[f EXCEPT !.breathing_rate = v] : v \in BreathingRateSamples}
CaffeineChanges(f) == {[f EXCEPT !.caffeine = v] : v \in CaffeineSamples}
AlcoholChanges(f) == {[f EXCEPT !.alcohol = v] : v \in AlcoholSamples}
SleepChanges(f) == {[f EXCEPT !.sleep_hours = v] : v \in SleepSamples}

Next ==
    \/ \E file \in SessionFiles : UploadFile(file)
    \/ RemoveFile
    \/ \E i \in 1..Len(Pages) : SwitchPage(Pages[i])
    \/ \E search \in SessionSearches : ChangeSearch(search)
    \/ \E f \in GenderChanges(form, df) \cup StressChanges(form)
                \cup AlcoholChanges(form) \cup SleepChanges(form) : ChangeForm(f)

Spec == Init /\ [][Next]_vars

\* C3: after any sequence of events the Dataset is decided by the file now
\* uploaded alone: absent with no file or a file that fails the column check,
\* else the Loader's rows of that file and of no other.
C3_DatasetFollowsUpload ==
    /\ uploaded_file = None => df = None
    /\ (uploaded_file # None /\ MissingFrom(uploaded_file) # {}) => df = None
    /\ (uploaded_file # None /\ MissingFrom(uploaded_file) = {}) =>
          (df # None /\ df.rows = ExpectedRows(uploaded_file))

\* a schema-failing upload seen from the Reports page, which only a page switch
\* from Home reaches
C3_Witness ==
    /\ uploaded_file # None
    /\ MissingFrom(uploaded_file) # {}
    /\ page = "Reports"
    /\ df = None

\* C4: every run executes exactly the selected view, and with no Dataset that
\* view shows its warning and computes nothing: no metric, chart, score,
\* filtered table or export.
C4_OneViewNoComputation ==
    /\ out.views = <<page>>
    /\ df = None =>
          /\ Len(out.warnings) = 1
          /\ out.metrics = <<>>
          /\ out.charts = <<>>
          /\ out.score = None
          /\ out.filtered = None
          /\ out.csv = None
          /\ out.exceptions = <<>>

\* a rejected upload on the Data Visualization page
C4_Witness ==
    /\ page = "Data Visualization"
    /\ uploaded_file # None
    /\ out.error # <<>>
    /\ df = None
    /\ Len(out.warnings) = 1

(***************************************************************************)
(* The Predictions specification: the form, over one dataset.              *)
(***************************************************************************)
PredictionsFile ==
    [header |-> FullHeader(0, 0),
     rows   |-> <<GoodRow(Male, Eng), GoodRow(Female, Sales)>>]

UploadForPredictions ==
    /\ uploaded_file = None
    /\ UploadFile(PredictionsFile)

OpenPredictions == SwitchPage("Predictions")

NextPredictions ==
    \/ UploadForPredictions
    \/ OpenPredictions
    \/ \E f \in GenderChanges(form, df) : ChangeForm(f)
    \/ \E f \in OccupationChanges(form, df) : ChangeForm(f)
    \/ \E f \in StressChanges(form) : ChangeForm(f)
    \/ \E f \in HeartRateChanges(form) : ChangeForm(f)
    \/ \E f \in BreathingRateChanges(form) : ChangeForm(f)
    \/ \E f \in CaffeineChanges(form) : ChangeForm(f)
    \/ \E f \in AlcoholChanges(form) : ChangeForm(f)
    \/ \E f \in SleepChanges(form) : ChangeForm(f)

SpecPredictions == Init /\ [][NextPredictions]_vars

\* 500 times the mean of the five terms
Numerator(f) ==
    100 * f.stress_level + 5 * f.heart_rate + 20 * f.breathing_rate
    + f.caffeine + 100 * f.alcohol

\* C8: the score is (stress + heart_rate/20 + breathing_rate/5 + caffeine/100
\* + alcohol) / 5 to the nearest hundredth, whatever the sleep hours, gender
\* and occupation; it is 3.20 for stress 5, heart rate 80, breathing rate 20,
\* caffeine 100, alcohol 2.
C8_ScoreFormula ==
    (page = "Predictions" /\ df # None) =>
        /\ out.score # None
        /\ 2 * (5 * out.score.h - Numerator(form)) <= 5
        /\ 2 * (Numerator(form) - 5 * out.score.h) <= 5
        /\ (/\ form.stress_level = 5
            /\ form.heart_rate = 80
            /\ form.breathing_rate = 20
            /\ form.caffeine = 100
            /\ form.alcohol = 2) => out.score.h = 320

\* the example's five inputs with other sleep hours, gender and occupation
C8_Witness ==
    /\ page = "Predictions"
    /\ df # None
    /\ form.stress_level = 5
    /\ form.heart_rate = 80
    /\ form.breathing_rate = 20
    /\ form.caffeine = 100
    /\ form.alcohol = 2
    /\ form.sleep_hours = 12
    /\ form.gender = Str(Female)
    /\ form.occupation = Str(Sales)
    /\ out.score = Dec2(320)

\* C9: within the ranges of the form the score shown under "Predicted Anxiety
\* Severity (1-10)" lies between 1 and 10.
C9_ScoreWithinLabel ==
    (page = "Predictions" /\ df # None) =>
        /\ out.score # None
        /\ 100 <= out.score.h
        /\ out.score.h <= 1000

\* every input at its maximum
C9_Witness ==
    /\ page = "Predictions"
    /\ df # None
    /\ form.stress_level = StressMax
    /\ form.heart_rate = HeartRateMax
    /\ form.breathing_rate = BreathingRateMax
    /\ form.caffeine = CaffeineMax
    /\ form.alcohol = AlcoholMax
    /\ out.score = Dec2(860)

(***************************************************************************)
(* The Reports specification: the search box, over generated datasets.     *)
(***************************************************************************)
Other == <<"O", "t", "h">>

ReportRows ==
    {GoodRow(Male, Eng), GoodRow(Female, Sales), GoodRow(Other, Eng),
     GoodRow(Other, Sales)}

ReportFiles ==
    {[header |-> FullHeader(0, 0), rows |-> t] :
        t \in Tables(ReportRows, MaxReportRows) \ {<<>>}}

SearchChars == {"a", "L", ".", "("}

\* "male" in every letter case
MaleSearches ==
    {<<m, a, l, e>> : m \in {"m", "M"}, a \in {"a", "A"}, l \in {"l", "L"},
                      e \in {"e", "E"}}

UploadForReports ==
    /\ uploaded_file = None
    /\ \E file \in ReportFiles : UploadFile(file)

OpenReports == SwitchPage("Reports")

TypeSearch ==
    /\ Len(search_text) < MaxSearchLen
    /\ \E c \in SearchChars : ChangeSearch(Append(search_text, c))

ClearSearch == ChangeSearch(NoSearch)

\* "male", in some letter case, entered in the empty box
SearchMale ==
    /\ search_text = NoSearch
    /\ \E search \in MaleSearches : ChangeSearch(search)

NextReports ==
    UploadForReports \/ OpenReports \/ TypeSearch \/ ClearSearch \/ SearchMale

SpecReports == Init /\ [][NextReports]_vars

\* s holds pat as a substring, letter case ignored
HasSubstring(s, pat) ==
    \E i \in 0..(Len(s) - Len(pat)) :
        \A k \in 1..Len(pat) : Lower(s[i + k]) = Lower(pat[k])

GenderOf(row) == row[1].s
OccupationOf(row) == row[2].s

\* C5: the Filtered View is exactly the rows of the Dataset, in order, whose
\* Gender or Occupation holds the search string as a substring, letter case
\* ignored.
C5_FilterIsSubstringMatch ==
    (page = "Reports" /\ df # None) =>
        /\ out.filtered # None
        /\ out.filtered.rows =
              SelectSeq(df.rows, LAMBDA row :
                  \/ HasSubstring(GenderOf(row), search_text)
                  \/ HasSubstring(OccupationOf(row), search_text))

\* C6, as claimed: over a Dataset with "Male" rows and "Female" rows a search
\* for "male" in any letter case returns the "Male" rows only.
C6_MaleSearchOnlyMale ==
    (/\ page = "Reports"
     /\ df # None
     /\ search_text \in MaleSearches
     /\ \E r \in 1..Len(df.rows) : GenderOf(df.rows[r]) = Male
     /\ \E r \in 1..Len(df.rows) : GenderOf(df.rows[r]) = Female) =>
        /\ out.filtered # None
        /\ out.filtered.rows =
              SelectSeq(df.rows, LAMBDA row : GenderOf(row) = Male)

\* C6, amended: a search for "male" in any letter case returns, in order, the
\* rows whose Gender is "Male" or "Female" ("Female" holds "male") and no row
\* whose Gender and Occupation both lack "male"; the empty search returns
\* all rows.
C6_MaleSearchMaleAndFemale ==
    (page = "Reports" /\ df # None) =>
        /\ search_text \in MaleSearches =>
              /\ out.filtered # None
              /\ out.filtered.rows =
                    SelectSeq(df.rows, LAMBDA row : GenderOf(row) \in {Male, Female})
        /\ search_text = NoSearch =>
              /\ out.filtered # None
              /\ out.filtered.rows = df.rows

\* "MaLe" over a "Male" row, a "Female" row and a row of another gender
C6_Witness ==
    /\ page = "Reports"
    /\ df # None
    /\ search_text = <<"M", "a", "L", "e">>
    /\ Len(df.rows) = MaxReportRows
    /\ \E r \in 1..Len(df.rows) : GenderOf(df.rows[r]) = Female
    /\ \E r \in 1..Len(df.rows) : GenderOf(df.rows[r]) = Other
    /\ out.filtered # None
    /\ Len(out.filtered.rows) = Len(df.rows) - 1

\* the file an export reads back as: its lines split at the commas
RECURSIVE Split(_)
Split(line) ==
    IF \A k \in 1..Len(line) : line[k] # ","
    THEN <<line>>
    ELSE LET k == CHOOSE i \in 1..Len(line) :
                     line[i] = "," /\ \A j \in 1..(i - 1) : line[j] # ","
         IN <<SubSeq(line, 1, k - 1)>> \o Split(SubSeq(line, k + 1, Len(line)))

Reparsed(export) ==
    LoadData([header |-> Split(export.lines[1]),
              rows   |-> [r \in 1..(Len(export.lines) - 1) |->
                            Split(export.lines[r + 1])]]).df

\* C7: whatever the search string, the Reports view offers an export that
\* reads back as the whole Dataset, row for row and in order.
C7_ExportIsWholeDataset ==
    (page = "Reports" /\ df # None) =>
        /\ out.csv # None
        /\ Reparsed(out.csv) # None
        /\ Reparsed(out.csv).columns = df.columns
        /\ Reparsed(out.csv).rows = df.rows

====
